---- MODULE Spec2Model ----
(***************************************************************************)
(* Instance initialisation and constructor-options resolution of           *)
(* core/instance/init.js (initMixin/_init, initInternalComponent,          *)
(* resolveConstructorOptions, resolveModifiedOptions) and of the Vue       *)
(* constructor of core/instance/index.js.                                  *)
(*                                                                         *)
(* JavaScript objects live in a heap (a sequence of cells, an object's     *)
(* identity is its index), so that `===`, aliasing and in-place mutation   *)
(* are what they are in the program.                                       *)
(***************************************************************************)
EXTENDS Integers, Sequences, FiniteSets, TLC

VARIABLES
  uid,      \* init.js:13  module-level counter
  heap,     \* the objects (options objects, component maps, hook arrays)
  cls,      \* the component classes: Vue and the classes extended from it
  vms,      \* the instances, in the order their constructor was entered
  stack,    \* the _init invocations in progress, innermost last
  err,      \* an exception in flight
  last,     \* history: the latest resolveConstructorOptions calls and the
            \* keys set late on each class's options object
  envOps,   \* number of operations made on defined classes (bounded)
  plain     \* history: the calls of Vue made without `new`, and the
            \* warnings they gave

vars == <<uid, heap, cls, vms, stack, err, last, envOps, plain>>

(***************************************************************************)
(* Bounds                                                                  *)
(***************************************************************************)
MaxClass == 3     \* classes defined, Vue included
MaxEnv == 3       \* mixins, late modifications of class options and direct
                  \* calls of resolveConstructorOptions
MaxVm == 3        \* instances constructed
MaxDepth == 2     \* constructions nested in one another
MaxPlain == 1     \* calls of Vue without `new`

(***************************************************************************)
(* Values and objects                                                      *)
(***************************************************************************)
\* a JavaScript value: undefined, a scalar, a heap reference, a class,
\* an instance or a virtual node
Undef == [t |-> "u", v |-> 0]
Scalar(n) == [t |-> "s", v |-> n]
Ref(o) == [t |-> "r", v |-> o]
ClassVal(c) == [t |-> "c", v |-> c]
VmVal(i) == [t |-> "v", v |-> i]
VNodeVal(n) == [t |-> "n", v |-> n]

\* JavaScript truthiness: undefined and the scalar 0 (standing for "", 0,
\* false, null) are falsy
Truthy(x) == ~(x.t = "u" \/ (x.t = "s" /\ x.v = 0))

EmptyMap == [k \in {} |-> Undef]

\* {} / Object.create(proto) / an array literal
NewObject(proto, fields) == [proto |-> proto, f |-> fields, elems |-> <<>>]
NewArray(elems) == [proto |-> 0, f |-> EmptyMap, elems |-> elems]

\* obj[key], looked up through the prototype chain
RECURSIVE Get(_, _, _)
Get(h, o, key) ==
  IF o = 0 THEN Undef
  ELSE IF key \in DOMAIN h[o].f THEN h[o].f[key]
  ELSE Get(h, h[o].proto, key)

\* the keys a for-in loop enumerates: own and inherited
RECURSIVE ForInKeys(_, _)
ForInKeys(h, o) ==
  IF o = 0 THEN {} ELSE DOMAIN h[o].f \cup ForInKeys(h, h[o].proto)

\* obj[key] = value
SetField(h, o, key, value) ==
  [h EXCEPT ![o].f = [k \in DOMAIN @ \cup {key} |-> IF k = key THEN value ELSE @[k]]]

\* util extend(to, from): copies every key of `from` into the object `to`
extend(h, to, from) ==
  [h EXCEPT ![to].f = [k \in DOMAIN @ \cup DOMAIN from |->
                          IF k \in DOMAIN from THEN from[k] ELSE @[k]]]

\* the key under which a component named n is registered in a components map
NameKey(n) == IF n = 1 THEN "n1" ELSE "n2"

HookKeys == {"beforeCreate", "created"}
AssetKeys == {"components"}
\* the order in which mergeOptions visits the keys
KeyOrder == <<"components", "beforeCreate", "created", "name", "el", "foo">>

(***************************************************************************)
(* mergeOptions (util/options): per-key strategies                         *)
(***************************************************************************)
\* the strategy of one key; yields the heap (a strategy may allocate) and
\* the merged value
mergeField(h, key, parentVal, childVal) ==
  IF key \in AssetKeys THEN
    \* mappings, child overriding: a new map on top of the parent's map
    LET own == IF childVal.t = "r" THEN h[childVal.v].f ELSE EmptyMap
        h1 == Append(h, NewObject(IF parentVal.t = "r" THEN parentVal.v ELSE 0, own))
    IN [h |-> h1, val |-> Ref(Len(h1))]
  ELSE IF key \in HookKeys THEN
    \* hook arrays concatenate, the parent's callbacks first
    IF childVal.t = "u" THEN [h |-> h, val |-> parentVal]
    ELSE IF parentVal.t = "u" THEN [h |-> h, val |-> childVal]
    ELSE LET h1 == Append(h, NewArray(h[parentVal.v].elems \o h[childVal.v].elems))
         IN [h |-> h1, val |-> Ref(Len(h1))]
  ELSE
    \* default strategy: the child's value when it has one
    [h |-> h, val |-> IF childVal.t = "u" THEN parentVal ELSE childVal]

RECURSIVE mergeKeys(_, _, _, _, _)
mergeKeys(h, parent, child, i, acc) ==
  IF i > Len(KeyOrder) THEN [h |-> h, f |-> acc]
  ELSE LET key == KeyOrder[i] IN
    IF key \in ForInKeys(h, parent) \cup DOMAIN child THEN
      LET r == mergeField(h, key, Get(h, parent, key),
                          IF key \in DOMAIN child THEN child[key] ELSE Undef)
      IN mergeKeys(r.h, parent, child, i + 1,
                   [k \in DOMAIN acc \cup {key} |-> IF k = key THEN r.val ELSE acc[k]])
    ELSE mergeKeys(h, parent, child, i + 1, acc)

\* mergeOptions(parent, child): a new options object; `parent` is a heap
\* object, `child` the fields of the child options
mergeOptions(h, parent, child) ==
  LET r == mergeKeys(h, parent, child, 1, EmptyMap)
      h1 == Append(r.h, NewObject(0, r.f))
  IN [h |-> h1, id |-> Len(h1)]

(***************************************************************************)
(* Component classes                                                       *)
(***************************************************************************)
\* a class: Ctor.super, Ctor.options, Ctor.superOptions, Ctor.extendOptions,
\* Ctor.sealedOptions; 0 stands for an unset field
NewClass(super, options, superOptions, extendOptions, sealedOptions) ==
  [super |-> super, options |-> options, superOptions |-> superOptions,
   extendOptions |-> extendOptions, sealedOptions |-> sealedOptions]

\* init.js:156-170
resolveModifiedOptions(h, cs, Ctor) ==
  LET latest == cs[Ctor].options
      sealed == cs[Ctor].sealedOptions
      keys == {key \in ForInKeys(h, latest) : Get(h, latest, key) # Get(h, sealed, key)}
  IN [key \in keys |-> Get(h, latest, key)]

\* init.js:124  if (Ctor.super)
hasSuper(cs, Ctor) == cs[Ctor].super # 0

\* the cache taken as current at every call
superChangedNever(superOptions, cachedSuperOptions) == FALSE

\* a re-merge at every call, whatever the cache holds
superChangedAlways(superOptions, cachedSuperOptions) == TRUE

\* init.js:128  if (superOptions !== cachedSuperOptions)
superChanged(superOptions, cachedSuperOptions) == superOptions # cachedSuperOptions

\* the cache of the parent's options left as it was
cacheSuperOptionsNot(cs, Ctor, superOptions) == cs

\* init.js:132  Ctor.superOptions = superOptions
cacheSuperOptions(cs, Ctor, superOptions) ==
  [cs EXCEPT ![Ctor].superOptions = superOptions]

\* the late-modified options dropped
updateExtendOptionsNot(h, cs, Ctor) == h

\* init.js:135-140  fold the late-modified options into Ctor.extendOptions
updateExtendOptions(h, cs, Ctor) ==
  LET modifiedOptions == resolveModifiedOptions(h, cs, Ctor)
  IN IF DOMAIN modifiedOptions # {}
     THEN extend(h, cs[Ctor].extendOptions, modifiedOptions)
     ELSE h

\* the registration written through to the parent's components map
selfRegisterThrough(h, options, Ctor) ==
  LET name == Get(h, options, "name")
      components == Get(h, options, "components")
  IN IF Truthy(name)
     THEN SetField(h, h[components.v].proto, NameKey(name.v), ClassVal(Ctor))
     ELSE h

\* no self-registration
selfRegisterNot(h, options, Ctor) == h

\* init.js:143-145  if (options.name) options.components[options.name] = Ctor
selfRegister(h, options, Ctor) ==
  LET name == Get(h, options, "name")
  IN IF Truthy(name)
     THEN SetField(h, Get(h, options, "components").v, NameKey(name.v), ClassVal(Ctor))
     ELSE h

\* a fresh copy of Ctor.options stored and returned
returnOptionsCopy(h, cs, Ctor) ==
  LET m == mergeOptions(h, cs[Ctor].options, EmptyMap)
  IN [h |-> m.h, cs |-> [cs EXCEPT ![Ctor].options = m.id], res |-> m.id]

\* init.js:123,148  let options = Ctor.options; ...; return options
returnOptions(h, cs, Ctor) == [h |-> h, cs |-> cs, res |-> cs[Ctor].options]

\* init.js:121-149; yields the heap, the classes and the returned options
RECURSIVE resolveConstructorOptions(_, _, _)
resolveConstructorOptions(h, cs, Ctor) ==
  LET options == cs[Ctor].options IN
  IF hasSuper(cs, Ctor) THEN
    LET r == resolveConstructorOptions(h, cs, cs[Ctor].super)
        superOptions == r.res
        cachedSuperOptions == r.cs[Ctor].superOptions
    IN IF superChanged(superOptions, cachedSuperOptions) THEN
         LET cs1 == cacheSuperOptions(r.cs, Ctor, superOptions)
             h1 == updateExtendOptions(r.h, cs1, Ctor)
             m == mergeOptions(h1, superOptions, h1[cs1[Ctor].extendOptions].f)
             cs2 == [cs1 EXCEPT ![Ctor].options = m.id]
             h2 == selfRegister(m.h, m.id, Ctor)
         IN [h |-> h2, cs |-> cs2, res |-> m.id]
       ELSE [h |-> r.h, cs |-> r.cs, res |-> options]
  ELSE returnOptions(h, cs, Ctor)

\* Vue.extend (global-api/extend): define a subclass of Super from the
\* declared extension `ext`
extendClass(h, cs, Super, ext) ==
  LET h1 == Append(h, NewObject(0, ext))
      extendOptions == Len(h1)
      m == mergeOptions(h1, cs[Super].options, ext)
      Sub == Len(cs) + 1
      h2 == selfRegister(m.h, m.id, Sub)
      h3 == Append(h2, NewObject(0, h2[m.id].f))
  IN [h |-> h3,
      cs |-> Append(cs, NewClass(Super, m.id, cs[Super].options, extendOptions, Len(h3)))]

(***************************************************************************)
(* Initial state                                                           *)
(***************************************************************************)
\* callbacks are numbered; these are the hook arrays user code writes in
\* its option literals
HookA == 1
HookB == 2
\* a components map user code writes in an option literal
UserComponents == 3
\* Vue.options.components and Vue.options
VueComponents == 4
VueOptions == 5
VueClass == 1

One(k, x) == [kk \in {k} |-> x]

Heap0 ==
  << NewArray(<<1>>), NewArray(<<2>>),
     NewObject(0, One("n2", ClassVal(VueClass))),
     NewObject(0, EmptyMap),
     NewObject(0, One("components", Ref(VueComponents))) >>

Classes0 == << NewClass(0, VueOptions, 0, 0, 0) >>

NoCalls == [n |-> 0, direct |-> 0, calls |-> <<>>, late |-> <<EmptyMap>>]

NoPlain == [n |-> 0, warned |-> 0]

Init ==
  /\ uid = 0
  /\ heap = Heap0
  /\ cls = Classes0
  /\ vms = <<>>
  /\ stack = <<>>
  /\ err = "none"
  /\ last = NoCalls
  /\ envOps = 0
  /\ plain = NoPlain

(***************************************************************************)
(* Operations on classes (user code at top level)                          *)
(***************************************************************************)
\* the option literals user code passes to extend and mixin
ExtChoices ==
  { One("foo", Scalar(1)),
    [k \in {"name", "created"} |-> IF k = "name" THEN Scalar(1) ELSE Ref(HookA)] }
MixinChoices ==
  { [k \in {"foo", "created"} |-> IF k = "foo" THEN Scalar(2) ELSE Ref(HookB)] }
\* late modifications of an options object: key and new value
LateChoices ==
  { <<"name", Scalar(2)>>, <<"created", Ref(HookB)>>,
    <<"components", Ref(UserComponents)>> }

AtTopLevel == stack = <<>> /\ err = "none"

\* Sub = Super.extend(ext)
Extend(Super, ext) ==
  /\ AtTopLevel
  /\ Len(cls) < MaxClass
  /\ LET r == extendClass(heap, cls, Super, ext)
     IN heap' = r.h /\ cls' = r.cs
  /\ last' = [last EXCEPT !.calls = <<>>, !.late = Append(@, EmptyMap)]
  /\ UNCHANGED <<uid, vms, stack, err, envOps, plain>>

\* Ctor.mixin(m) (global-api/mixin): this.options = mergeOptions(this.options, m)
Mixin(Ctor, m) ==
  /\ AtTopLevel
  /\ envOps < MaxEnv
  /\ LET r == mergeOptions(heap, cls[Ctor].options, m)
     IN heap' = r.h /\ cls' = [cls EXCEPT ![Ctor].options = r.id]
  /\ last' = [last EXCEPT !.calls = <<>>, !.late[Ctor] = EmptyMap]
  /\ envOps' = envOps + 1
  /\ UNCHANGED <<uid, vms, stack, err, plain>>

\* Ctor.options[key] = value, after the subclass was defined (#4976)
LateSet(Ctor, key, value) ==
  /\ AtTopLevel
  /\ envOps < MaxEnv
  /\ cls[Ctor].super # 0
  /\ Get(heap, cls[Ctor].options, key) # value
  /\ heap' = SetField(heap, cls[Ctor].options, key, value)
  /\ last' = [last EXCEPT !.calls = <<>>,
                          !.late[Ctor] = [k \in DOMAIN @ \cup {key} |->
                                            IF k = key THEN value ELSE @[k]]]
  /\ envOps' = envOps + 1
  /\ UNCHANGED <<uid, cls, vms, stack, err, plain>>

\* the record of one resolveConstructorOptions call: the class, the result,
\* whether the class's options were re-merged, and, as they were when the
\* call began, the keys set late on the class's options object and the keys
\* of its extendOptions
CallRecord(h, cs, Ctor, r, l) ==
  [c |-> Ctor, res |-> r.res,
   remerged |-> r.cs[Ctor].options # cs[Ctor].options,
   late |-> l.late[Ctor],
   ext |-> IF cs[Ctor].extendOptions = 0 THEN {}
           ELSE DOMAIN h[cs[Ctor].extendOptions].f]

\* the history after a call: the late keys of a regenerated options object
\* are no longer late
Recorded(l, cs, r, rec, direct) ==
  [n |-> l.n + 1, direct |-> l.direct + direct,
   calls |-> IF Len(l.calls) = 2 THEN <<l.calls[2], rec>> ELSE Append(l.calls, rec),
   late |-> [c \in DOMAIN l.late |->
               IF r.cs[c].options # cs[c].options THEN EmptyMap ELSE l.late[c]]]

\* resolveConstructorOptions(Ctor), called directly
Resolve(Ctor) ==
  /\ AtTopLevel
  /\ envOps < MaxEnv
  /\ LET r == resolveConstructorOptions(heap, cls, Ctor)
     IN /\ heap' = r.h
        /\ cls' = r.cs
        /\ last' = Recorded(last, cls, r, CallRecord(heap, cls, Ctor, r, last), 1)
  /\ envOps' = envOps + 1
  /\ UNCHANGED <<uid, vms, stack, err, plain>>

ClassNext ==
  \/ \E Super \in 1..Len(cls), ext \in ExtChoices : Extend(Super, ext)
  \/ \E Ctor \in 1..Len(cls), m \in MixinChoices : Mixin(Ctor, m)
  \/ \E Ctor \in 1..Len(cls), lc \in LateChoices : LateSet(Ctor, lc[1], lc[2])
  \/ \E Ctor \in 1..Len(cls) : Resolve(Ctor)

(***************************************************************************)
(* Instances and _init                                                     *)
(***************************************************************************)
\* the virtual nodes a child instance is created for: componentOptions
VNodes ==
  << [propsData |-> Scalar(11), listeners |-> Scalar(12),
      children |-> Scalar(13), tag |-> Scalar(14)],
     [propsData |-> Undef, listeners |-> Undef,
      children |-> Undef, tag |-> Scalar(15)] >>

\* the `options` argument of the constructor: undefined, or an object
NoOptions == [given |-> FALSE, f |-> EmptyMap]
Options(fields) == [given |-> TRUE, f |-> fields]
\* options[key] of an argument object
Arg(options, key) == IF key \in DOMAIN options.f THEN options.f[key] ELSE Undef

\* the options createComponentInstanceForVnode builds for a child instance
InternalOptions(parent, vnode, render) ==
  Options([k \in {"_isComponent", "parent", "_parentVnode"} \cup
                  (IF render THEN {"render", "staticRenderFns"} ELSE {}) |->
             CASE k = "_isComponent" -> Scalar(1)
               [] k = "parent" -> parent
               [] k = "_parentVnode" -> VNodeVal(vnode)
               [] k = "render" -> Scalar(21)
               [] k = "staticRenderFns" -> Scalar(22)])

\* the instance as `new` makes it and as init.js:22-27 marks it
NewVm(Ctor, options, id) ==
  [ctor |-> Ctor, options |-> options,
   _uid |-> id, _isVue |-> TRUE,
   opts |-> 0,                     \* vm.$options
   _renderProxy |-> FALSE, _self |-> FALSE,
   lifecycle |-> FALSE, events |-> FALSE, render |-> FALSE,
   injections |-> FALSE, state |-> FALSE, provide |-> FALSE,
   hooks |-> <<>>,                 \* the hooks callHook was called for
   mounts |-> 0,                   \* $mount calls made by _init
   manual |-> 0,                   \* $mount calls made by user code
   phase |-> "uninitialized", log |-> <<"uninitialized">>,
   status |-> "running", failed |-> "none"]

Top == stack[Len(stack)]
Running(pc) == stack # <<>> /\ err = "none" /\ Top.pc = pc
Enter(vm, phase) == [vm EXCEPT !.phase = phase, !.log = Append(@, phase)]
Goto(pc) == [stack EXCEPT ![Len(stack)].pc = pc]
\* the outermost invocation returns first
PopOuter == SubSeq(stack, 2, Len(stack))
Pop == SubSeq(stack, 1, Len(stack) - 1)

\* callHook looks the callbacks up in vm.$options[hook]
Handlers(h, vm, hook) == Get(h, vm.opts, hook)
HookOf(pc) == IF pc = "beforeCreate_cb" THEN "beforeCreate" ELSE "created"
\* user code is running and may construct, or raise
InUserCode ==
  /\ err = "none"
  /\ \/ stack = <<>>
     \/ /\ stack # <<>>
        /\ \/ Top.pc = "mounting"
           \/ /\ Top.pc \in {"beforeCreate_cb", "created_cb"}
              /\ Handlers(heap, vms[Top.vm], HookOf(Top.pc)) # Undef

\* a counter that is read but not advanced
nextUidSame(u) == u

\* init.js:24  vm._uid = uid++
nextUid(u) == u + 1

\* the order of the steps of _init, init.js:30-87
StepOrder(pc) ==
  CASE pc = "options" -> "initProxy"
    [] pc = "initProxy" -> "initLifecycle"
    [] pc = "initLifecycle" -> "initEvents"
    [] pc = "initEvents" -> "initRender"
    [] pc = "initRender" -> "beforeCreate"
    [] pc = "beforeCreate" -> "beforeCreate_cb"
    [] pc = "beforeCreate_cb" -> "initInjections"
    [] pc = "initInjections" -> "initState"
    [] pc = "initState" -> "initProvide"
    [] pc = "initProvide" -> "created"
    [] pc = "created" -> "created_cb"
    [] pc = "created_cb" -> "mountCheck"

\* beforeCreate called after the injections instead of before them
NextPcHookLate(pc) ==
  CASE pc = "initRender" -> "initInjections"
    [] pc = "initInjections" -> "beforeCreate"
    [] pc = "beforeCreate_cb" -> "initState"
    [] OTHER -> StepOrder(pc)

\* initEvents left out
NextPcNoEvents(pc) ==
  IF pc = "initLifecycle" THEN "initRender" ELSE StepOrder(pc)

\* init.js:30-87: the step that follows a step
NextPc(pc) == StepOrder(pc)

\* index.js:9-16 and init.js:20-27: new Ctor(options) enters _init, which
\* numbers and marks the instance
Vue(Ctor, options) ==
  /\ InUserCode
  /\ Len(vms) < MaxVm
  /\ Len(stack) < MaxDepth
  /\ vms' = Append(vms, NewVm(Ctor, options, uid))
  /\ uid' = nextUid(uid)
  /\ stack' = Append(stack, [vm |-> Len(vms) + 1, pc |-> "options"])
  /\ UNCHANGED <<heap, cls, err, last, envOps, plain>>

\* init.js:99-113: the fields initInternalComponent assigns
internalFields(options) ==
  LET parentVnode == Arg(options, "_parentVnode")
      vnodeComponentOptions == VNodes[parentVnode.v]
      given == {"parent", "_parentVnode", "propsData", "_parentListeners",
                "_renderChildren", "_componentTag"}
      rendered == IF Truthy(Arg(options, "render"))
                  THEN {"render", "staticRenderFns"} ELSE {}
  IN [k \in given \cup rendered |->
        CASE k = "parent" -> Arg(options, "parent")
          [] k = "_parentVnode" -> parentVnode
          [] k = "propsData" -> vnodeComponentOptions.propsData
          [] k = "_parentListeners" -> vnodeComponentOptions.listeners
          [] k = "_renderChildren" -> vnodeComponentOptions.children
          [] k = "_componentTag" -> vnodeComponentOptions.tag
          [] k = "render" -> Arg(options, "render")
          [] k = "staticRenderFns" -> Arg(options, "staticRenderFns")]

\* a plain object in place of Object.create(vm.constructor.options)
initInternalComponentPlain(h, cs, vm, options) ==
  LET h1 == Append(h, NewObject(0, internalFields(options)))
  IN [h |-> h1, id |-> Len(h1)]

\* init.js:92-114
initInternalComponent(h, cs, vm, options) ==
  LET h1 == Append(h, NewObject(cs[vm.ctor].options, internalFields(options)))
  IN [h |-> h1, id |-> Len(h1)]

\* init.js:30  if (options && options._isComponent)
isInternal(options) == options.given /\ Truthy(Arg(options, "_isComponent"))

\* init.js:30-53: vm.$options
initOptions ==
  /\ Running("options")
  /\ LET i == Top.vm
         vm == vms[i]
     IN IF isInternal(vm.options)
        THEN LET r == initInternalComponent(heap, cls, vm, vm.options)
             IN /\ heap' = r.h
                /\ vms' = [vms EXCEPT ![i] = Enter([@ EXCEPT !.opts = r.id], "options-resolved")]
                /\ UNCHANGED <<cls, last>>
        ELSE LET r == resolveConstructorOptions(heap, cls, vm.ctor)
                 m == mergeOptions(r.h, r.res, vm.options.f)
             IN /\ heap' = m.h
                /\ cls' = r.cs
                /\ vms' = [vms EXCEPT ![i] = Enter([@ EXCEPT !.opts = m.id], "options-resolved")]
                /\ last' = Recorded(last, cls, r, CallRecord(heap, cls, vm.ctor, r, last), 0)
  /\ stack' = Goto(NextPc("options"))
  /\ UNCHANGED <<uid, err, envOps, plain>>

\* a step of _init that touches the instance alone
Step(pc, phase, vmAfter) ==
  /\ Running(pc)
  /\ vms' = [vms EXCEPT ![Top.vm] = Enter(vmAfter, phase)]
  /\ stack' = Goto(NextPc(pc))
  /\ UNCHANGED <<uid, heap, cls, err, last, envOps, plain>>

\* init.js:55-62  initProxy(vm) / vm._renderProxy = vm; vm._self = vm
initProxy ==
  Step("initProxy", "proxied",
       [vms[Top.vm] EXCEPT !._renderProxy = TRUE, !._self = TRUE])

\* init.js:64
initLifecycle ==
  Step("initLifecycle", "lifecycle-linked", [vms[Top.vm] EXCEPT !.lifecycle = TRUE])

\* init.js:69
initEvents ==
  Step("initEvents", "events-ready", [vms[Top.vm] EXCEPT !.events = TRUE])

\* init.js:71
initRender ==
  Step("initRender", "render-ready", [vms[Top.vm] EXCEPT !.render = TRUE])

\* init.js:73  callHook(vm, "beforeCreate"): the callbacks start
callHookBeforeCreate ==
  Step("beforeCreate", "beforeCreate-fired",
       [vms[Top.vm] EXCEPT !.hooks = Append(@, "beforeCreate")])

\* init.js:75
initInjections ==
  Step("initInjections", "injections-ready", [vms[Top.vm] EXCEPT !.injections = TRUE])

\* init.js:77
initState ==
  Step("initState", "state-ready", [vms[Top.vm] EXCEPT !.state = TRUE])

\* init.js:79
initProvide ==
  Step("initProvide", "provide-ready", [vms[Top.vm] EXCEPT !.provide = TRUE])

\* init.js:81  callHook(vm, "created"): the callbacks start
callHookCreated ==
  Step("created", "created-fired",
       [vms[Top.vm] EXCEPT !.hooks = Append(@, "created")])

\* callHook returns: every callback has returned
hookReturn ==
  /\ stack # <<>> /\ err = "none"
  /\ Top.pc \in {"beforeCreate_cb", "created_cb"}
  /\ stack' = Goto(NextPc(Top.pc))
  /\ UNCHANGED <<uid, heap, cls, vms, err, last, envOps, plain>>

\* a callback of the running hook raises an error, which callHook lets through
hookRaise ==
  /\ InUserCode
  /\ stack # <<>>
  /\ Top.pc \in {"beforeCreate_cb", "created_cb"}
  /\ err' = "thrown"
  /\ vms' = [vms EXCEPT ![Top.vm].failed = HookOf(Top.pc)]
  /\ UNCHANGED <<uid, heap, cls, stack, last, envOps, plain>>

\* a mount that does not look at el
hasElAlways(h, vm) == TRUE

\* init.js:84  if (vm.$options.el)
hasEl(h, vm) == Truthy(Get(h, vm.opts, "el"))

\* init.js:84-87: vm.$mount(vm.$options.el) is entered
mountCall ==
  /\ Running("mountCheck")
  /\ hasEl(heap, vms[Top.vm])
  /\ vms' = [vms EXCEPT ![Top.vm].mounts = @ + 1]
  /\ stack' = Goto("mounting")
  /\ UNCHANGED <<uid, heap, cls, err, last, envOps, plain>>

\* $mount returns, and with it _init
mountReturn ==
  /\ Running("mounting")
  /\ vms' = [vms EXCEPT ![Top.vm] = Enter([@ EXCEPT !.status = "done"], "mounted")]
  /\ stack' = Pop
  /\ UNCHANGED <<uid, heap, cls, err, last, envOps, plain>>

\* init.js:84-88: no el, _init returns without mounting
noMount ==
  /\ Running("mountCheck")
  /\ ~hasEl(heap, vms[Top.vm])
  /\ vms' = [vms EXCEPT ![Top.vm] =
               Enter([@ EXCEPT !.status = "done"], "awaiting-manual-mount")]
  /\ stack' = Pop
  /\ UNCHANGED <<uid, heap, cls, err, last, envOps, plain>>

\* vm.$mount(el), called by user code on an instance that was not mounted
explicitMount(i) ==
  /\ stack = <<>> /\ err = "none"
  /\ vms[i].status = "done"
  /\ vms[i].phase = "awaiting-manual-mount"
  /\ vms' = [vms EXCEPT ![i] = Enter([@ EXCEPT !.manual = @ + 1], "mounted")]
  /\ UNCHANGED <<uid, heap, cls, stack, err, last, envOps, plain>>

\* the error caught inside _init, which goes on with its next step
abortSwallow ==
  /\ err = "thrown"
  /\ stack # <<>>
  /\ err' = "none"
  /\ stack' = IF Top.pc = "mounting" THEN stack ELSE Goto(NextPc(Top.pc))
  /\ UNCHANGED <<uid, heap, cls, vms, last, envOps, plain>>

\* init.js:20-88 and index.js:15 hold no try/catch: an error raised in a
\* step of _init leaves _init and the constructor, to the code that called
\* the constructor
abort ==
  /\ err = "thrown"
  /\ stack # <<>>
  /\ vms' = [vms EXCEPT ![Top.vm].status = "aborted"]
  /\ stack' = Pop
  /\ err' = IF Len(stack) = 1 THEN "toplevel" ELSE "incallback"
  /\ UNCHANGED <<uid, heap, cls, last, envOps, plain>>

\* the user code that called the failed constructor catches the error
userCatch ==
  /\ err \in {"incallback", "toplevel"}
  /\ err' = "none"
  /\ UNCHANGED <<uid, heap, cls, vms, stack, last, envOps, plain>>

\* the callback that called the failed constructor lets the error through:
\* it leaves the hook, or the mount, of the outer instance
callbackPropagate ==
  /\ err = "incallback"
  /\ err' = "thrown"
  /\ vms' = [vms EXCEPT ![Top.vm].failed =
               IF Top.pc = "mounting" THEN "mount" ELSE HookOf(Top.pc)]
  /\ UNCHANGED <<uid, heap, cls, stack, last, envOps, plain>>

InitSteps ==
  \/ initOptions
  \/ initProxy
  \/ initLifecycle
  \/ initEvents
  \/ initRender
  \/ callHookBeforeCreate
  \/ hookReturn
  \/ initInjections
  \/ initState
  \/ initProvide
  \/ callHookCreated
  \/ mountCall
  \/ mountReturn
  \/ noMount

ErrorSteps ==
  \/ hookRaise
  \/ abort
  \/ userCatch
  \/ callbackPropagate

\* the instance whose render creates the child
ParentVal == IF stack = <<>> THEN Undef ELSE VmVal(Top.vm)

\* the classes of the lifecycle runs: A = Vue.extend({name, created}),
\* B = A.extend({el, beforeCreate}), then Vue.mixin({foo})
ExtA == [k \in {"name", "created"} |-> IF k = "name" THEN Scalar(1) ELSE Ref(HookA)]
ExtB == [k \in {"el", "beforeCreate"} |-> IF k = "el" THEN Scalar(1) ELSE Ref(HookB)]
LifeSetup ==
  \/ Len(cls) = 1 /\ Extend(VueClass, ExtA)
  \/ Len(cls) = 2 /\ Extend(Len(cls), ExtB)
  \/ Len(cls) = 3 /\ envOps = 0 /\ Mixin(VueClass, One("foo", Scalar(2)))
LifeReady == Len(cls) = 3 /\ envOps >= 1

\* the constructions of the lifecycle runs: class and options
LifeChoices ==
  { <<1, Options(One("el", Scalar(1)))>>,
    <<2, Options(One("beforeCreate", Ref(HookB)))>>, <<3, NoOptions>>,
    <<3, InternalOptions(ParentVal, 1, FALSE)>>,
    <<2, InternalOptions(ParentVal, 2, TRUE)>> }

\* what `this` is when Vue is called without `new`: undefined for a plain
\* call Vue(options) (module code is strict), or the object given to
\* Vue.call / Vue.apply
Receivers == {Undef, Ref(VueOptions)}

\* index.js:11  this instanceof Vue
isInstance(receiver) == receiver.t = "v"

\* index.js:15  this._init: the method Vue.prototype gives to instances
\* only; undefined has no properties and a plain object has no _init
hasInit(receiver) == isInstance(receiver)

\* index.js:9-16  Vue called without `new`: the development build warns,
\* then this._init(options) is evaluated on the receiver, and raises a
\* TypeError to the caller when the receiver has no _init
VueCall(receiver, options) ==
  /\ AtTopLevel
  /\ plain.n < MaxPlain
  /\ ~isInstance(receiver)
  /\ \E development \in BOOLEAN :
       plain' = [n |-> plain.n + 1,
                 warned |-> plain.warned + (IF development THEN 1 ELSE 0)]
  /\ IF hasInit(receiver)
     THEN /\ vms' = Append(vms, NewVm(VueClass, options, uid))
          /\ uid' = nextUid(uid)
          /\ stack' = Append(stack, [vm |-> Len(vms) + 1, pc |-> "options"])
          /\ err' = err
     ELSE /\ err' = "toplevel"
          /\ UNCHANGED <<uid, vms, stack>>
  /\ UNCHANGED <<heap, cls, last, envOps>>

LifeNext ==
  \/ LifeSetup
  \/ LifeReady /\ \E ch \in LifeChoices : Vue(ch[1], ch[2])
  \/ InitSteps
  \/ ErrorSteps
  \/ \E i \in 1..Len(vms) : explicitMount(i)

SpecLife == Init /\ [][LifeNext]_vars

\* the lifecycle runs, with calls of Vue made without `new`
CallNext ==
  \/ LifeNext
  \/ LifeReady /\ \E receiver \in Receivers, ch \in LifeChoices :
                    VueCall(receiver, ch[2])

SpecCall == Init /\ [][CallNext]_vars

\* the lifecycle runs, with mixins applied to Vue between constructions:
\* an ancestor's options change more than once
\* (callbacks that return, constructions on the merge path and on the fast
\* path)
SealChoices ==
  { <<2, NoOptions>>, <<3, Options(One("foo", Scalar(3)))>>,
    <<3, InternalOptions(ParentVal, 1, FALSE)>> }

SealNext ==
  \/ LifeSetup
  \/ LifeReady /\ \E ch \in SealChoices : Vue(ch[1], ch[2])
  \/ InitSteps
  \/ LifeReady /\ \E m \in MixinChoices : Mixin(VueClass, m)

SpecSeal == Init /\ [][SealNext]_vars

\* Spec: the classes and their options; SpecLife: the instances
Next == ClassNext

Spec == Init /\ [][Next]_vars

(***************************************************************************)
(* Properties                                                              *)
(***************************************************************************)
Range(q) == {q[i] : i \in 1..Len(q)}
LastCall == last.calls[Len(last.calls)]

\* C1: the _uid values of the instances are 0, 1, 2, ... in the order in
\* which their _init invocations began, without gap or repeat, and the
\* counter stands at the number of invocations; nested and aborted
\* invocations included
C1_UidsInOrder ==
  /\ uid = Len(vms)
  /\ \A i \in 1..Len(vms) : vms[i]._uid = i - 1

\* three invocations, the first aborted, the third begun inside the second
C1_Witness ==
  /\ Len(vms) = 3
  /\ vms[1].status = "aborted"
  /\ Len(stack) = 2

Phases ==
  << "uninitialized", "options-resolved", "proxied", "lifecycle-linked",
     "events-ready", "render-ready", "beforeCreate-fired", "injections-ready",
     "state-ready", "provide-ready", "created-fired" >>
IsPrefix(p, q) == Len(p) <= Len(q) /\ p = SubSeq(q, 1, Len(p))
Frames(i) == {k \in 1..Len(stack) : stack[k].vm = i}

\* C3: an instance goes through the phases in the fixed order, then is
\* mounted or awaits a manual mount; a completed run skipped none, no phase
\* is entered twice, and one _init invocation runs per instance
C3_PhaseOrder ==
  \A i \in 1..Len(vms) :
    LET vm == vms[i] IN
    /\ \/ IsPrefix(vm.log, Phases) /\ vm.log # <<>>
       \/ vm.log \in { Phases \o <<"mounted">>,
                       Phases \o <<"awaiting-manual-mount">>,
                       Phases \o <<"awaiting-manual-mount", "mounted">> }
    /\ vm.phase = vm.log[Len(vm.log)]
    /\ Cardinality(Range(vm.log)) = Len(vm.log)
    /\ vm.status = "done" => Len(vm.log) > Len(Phases)
    /\ Cardinality(Frames(i)) = IF vm.status = "running" THEN 1 ELSE 0

\* one instance mounted by _init, one awaiting, one mounted by hand
C3_Witness ==
  \E i, j, k \in 1..Len(vms) :
    /\ vms[i].log = Phases \o <<"mounted">>
    /\ vms[j].log = Phases \o <<"awaiting-manual-mount">>
    /\ vms[k].log = Phases \o <<"awaiting-manual-mount", "mounted">>

ElOf(vm) == Get(heap, vm.opts, "el")

\* C4: with an el in $options, _init calls $mount once, after the created
\* hook, with no call from outside; without one it never calls $mount and
\* the instance awaits a manual mount until user code mounts it
C4_AutoMount ==
  \A i \in 1..Len(vms) :
    LET vm == vms[i] IN
    /\ vm.mounts <= 1
    /\ vm.mounts = 1 =>
         /\ vm.opts # 0 /\ Truthy(ElOf(vm))
         /\ vm.hooks = <<"beforeCreate", "created">>
    /\ vm.status = "done" =>
         IF Truthy(ElOf(vm))
         THEN vm.mounts = 1 /\ vm.manual = 0 /\ vm.phase = "mounted"
         ELSE /\ vm.mounts = 0
              /\ \/ vm.manual = 0 /\ vm.phase = "awaiting-manual-mount"
                 \/ vm.manual = 1 /\ vm.phase = "mounted"

\* an instance mounted by _init and one left awaiting
C4_Witness ==
  \E i, j \in 1..Len(vms) :
    /\ vms[i].status = "done" /\ Truthy(ElOf(vms[i])) /\ vms[i].mounts = 1
    /\ vms[j].status = "done" /\ ~Truthy(ElOf(vms[j])) /\ vms[j].manual = 0

\* C5: two resolveConstructorOptions calls in a row on the same class, with
\* nothing changed in between, return the same object
C5_ResolveTwice ==
  (Len(last.calls) = 2 /\ last.calls[1].c = last.calls[2].c)
    => last.calls[1].res = last.calls[2].res

\* a class two levels below Vue, the first of the two calls re-merged
C5_Witness ==
  /\ Len(last.calls) = 2
  /\ last.calls[1].c = last.calls[2].c
  /\ last.calls[1].remerged
  /\ cls[LastCall.c].super # 0
  /\ cls[cls[LastCall.c].super].super # 0

\* what a merge of parentVal and childVal yields for key, told by content:
\* resVal is the merged value and name the name the merged options declare
MergedAs(h, key, parentVal, childVal, resVal, name) ==
  IF key \in AssetKeys THEN
    /\ resVal.t = "r"
    /\ h[resVal.v].proto = (IF parentVal.t = "r" THEN parentVal.v ELSE 0)
    /\ childVal.t = "r" =>
         \A k \in DOMAIN h[childVal.v].f :
           /\ k \in DOMAIN h[resVal.v].f
           /\ \/ h[resVal.v].f[k] = h[childVal.v].f[k]
              \/ Truthy(name) /\ k = NameKey(name.v)
  ELSE IF key \in HookKeys THEN
    IF childVal.t = "u" THEN resVal = parentVal
    ELSE IF parentVal.t = "u" THEN resVal = childVal
    ELSE /\ resVal.t = "r"
         /\ h[resVal.v].elems = h[parentVal.v].elems \o h[childVal.v].elems
  ELSE resVal = (IF childVal.t = "u" THEN parentVal ELSE childVal)

\* the latest call re-merged the options of its class
Remerged == last.calls # <<>> /\ LastCall.remerged
\* the keys set late on the previous options object, extendOptions' own
\* keys left out
LateKeys == DOMAIN LastCall.late \ LastCall.ext

\* after a re-merge, Ctor.options is the returned object and holds, key by
\* key, the merge of the parent's current options with Ctor.extendOptions
StoredMerge ==
  LET c == LastCall.c
      res == LastCall.res
  IN /\ cls[c].options = res
     /\ cls[c].superOptions = cls[cls[c].super].options
     /\ DOMAIN heap[res].f =
          ForInKeys(heap, cls[c].superOptions) \cup DOMAIN heap[cls[c].extendOptions].f
     /\ \A key \in DOMAIN heap[res].f :
          MergedAs(heap, key, Get(heap, cls[c].superOptions, key),
                   Get(heap, cls[c].extendOptions, key),
                   Get(heap, res, key), Get(heap, res, "name"))

\* C6 as claimed: the re-merge stores the merge of the new parent options
\* with extendOptions, and every key set late on the previous options
\* object has its late-set value in the result
C6_LateValueKept ==
  Remerged =>
    /\ StoredMerge
    /\ \A key \in LateKeys : Get(heap, LastCall.res, key) = LastCall.late[key]

\* C6 amended: the re-merge stores the merge of the new parent options with
\* extendOptions, and every key set late on the previous options object to
\* a value other than the sealed one is in the result with what its merge
\* strategy makes of the new parent's value and the late-set value: the
\* late-set value for an overriding key, the parent's callbacks followed by
\* the late-set ones for a hook, a new map over the parent's map with the
\* entries of the late-set map (but for the class's own name) for components
C6_LateKeysMerged ==
  Remerged =>
    /\ StoredMerge
    /\ \A key \in LateKeys :
         LastCall.late[key] # Get(heap, cls[LastCall.c].sealedOptions, key) =>
           MergedAs(heap, key, Get(heap, cls[LastCall.c].superOptions, key),
                    LastCall.late[key], Get(heap, LastCall.res, key),
                    Get(heap, LastCall.res, "name"))

\* a re-merge after a components map was set late
C6_Witness ==
  /\ Remerged
  /\ "components" \in LateKeys

\* the step is a resolveConstructorOptions call on class c
ResolveCalled(c) ==
  /\ last'.n = last.n + 1
  /\ last'.calls[Len(last'.calls)].c = c

\* C7: on a class without parent, resolveConstructorOptions returns
\* Class.options, the same object at every call, and writes nothing: no
\* field of a class and no object changes
C7_NoParent ==
  [][\A c \in 1..Len(cls) :
       (ResolveCalled(c) /\ cls[c].super = 0) =>
         /\ last'.calls[Len(last'.calls)].res = cls[c].options
         /\ cls' = cls
         /\ heap' = heap]_vars

\* two calls in a row on Vue, whose options a mixin had replaced
C7_Witness ==
  /\ Len(last.calls) = 2
  /\ last.calls[1].c = VueClass
  /\ last.calls[2].c = VueClass
  /\ cls[VueClass].options # VueOptions

\* the class is registered under the name its options declare
Registered(c, options) ==
  LET name == Get(heap, options, "name")
      components == Get(heap, options, "components")
  IN Truthy(name) =>
       /\ components.t = "r"
       /\ Get(heap, components.v, NameKey(name.v)) = ClassVal(c)

\* C8 as claimed: after any resolveConstructorOptions call on a class whose
\* options declare a name, options.components[options.name] is the class
C8_RegisteredAfterResolve ==
  last.calls # <<>> => Registered(LastCall.c, LastCall.res)

\* C8 amended: after a resolveConstructorOptions call that re-merged the
\* class's options, options.components[options.name] is the class when the
\* merged options declare a name
C8_RegisteredAfterRemerge ==
  Remerged => Registered(LastCall.c, LastCall.res)

\* a re-merge of a class whose name was set late
C8_Witness ==
  /\ Remerged
  /\ "name" \in LateKeys
  /\ Truthy(Get(heap, LastCall.res, "name"))

\* C9: right after the options step of a fast-path construction, $options
\* is a new object whose prototype is the constructor's options object, the
\* six fields are the values supplied with the virtual node, render and
\* staticRenderFns are own fields only when a render function was given,
\* and every other key resolves through the prototype
C9_FastPath ==
  \A n \in 1..Len(stack) :
    LET i == stack[n].vm
        vm == vms[i]
        given == vm.options
        componentOptions == VNodes[Arg(given, "_parentVnode").v]
        own == heap[vm.opts].f
    IN (stack[n].pc = "initProxy" /\ "_isComponent" \in DOMAIN given.f) =>
         /\ vm.opts = Len(heap)
         /\ \A c \in 1..Len(cls) : cls[c].options # vm.opts
         /\ \A j \in 1..Len(vms) : j # i => vms[j].opts # vm.opts
         /\ heap[vm.opts].proto = cls[vm.ctor].options
         /\ own["parent"] = Arg(given, "parent")
         /\ own["_parentVnode"] = Arg(given, "_parentVnode")
         /\ own["propsData"] = componentOptions.propsData
         /\ own["_parentListeners"] = componentOptions.listeners
         /\ own["_renderChildren"] = componentOptions.children
         /\ own["_componentTag"] = componentOptions.tag
         /\ IF "render" \in DOMAIN given.f
            THEN /\ own["render"] = given.f["render"]
                 /\ own["staticRenderFns"] = given.f["staticRenderFns"]
            ELSE {"render", "staticRenderFns"} \cap DOMAIN own = {}
         /\ \A key \in Range(KeyOrder) \cup {"render", "staticRenderFns"} :
              key \notin DOMAIN own =>
                Get(heap, vm.opts, key) = Get(heap, cls[vm.ctor].options, key)

\* a fast-path construction without render function, on a class whose
\* options declare an el, and one with a render function
C9_Witness ==
  /\ stack # <<>>
  /\ Top.pc = "initProxy"
  /\ "_isComponent" \in DOMAIN vms[Top.vm].options.f
  /\ "render" \notin DOMAIN vms[Top.vm].options.f
  /\ Truthy(Get(heap, vms[Top.vm].opts, "el"))
  /\ \E j \in 1..Len(vms) : vms[j].opts # 0 /\ "render" \in DOMAIN heap[vms[j].opts].f

\* what an instance whose hook failed keeps, and what it never got
AbortedInHook(i) ==
  LET vm == vms[i] IN
  (vm.status = "aborted" /\ vm.failed \in HookKeys) =>
    /\ vm._uid = i - 1 /\ vm._isVue /\ vm.opts # 0 /\ vm._renderProxy /\ vm._self
    /\ vm.lifecycle /\ vm.events /\ vm.render
    /\ vm.mounts = 0 /\ vm.manual = 0
    /\ vm.failed = "beforeCreate" =>
         /\ ~(vm.injections \/ vm.state \/ vm.provide)
         /\ vm.hooks = <<"beforeCreate">>
         /\ vm.phase = "beforeCreate-fired"
    /\ vm.failed = "created" =>
         /\ vm.hooks = <<"beforeCreate", "created">>
         /\ vm.phase = "created-fired"

\* C10: an error raised by a callback of beforeCreate or created is not
\* caught by _init: it leaves _init and the constructor to their caller, no
\* later step runs for the instance, and nothing set on the instance or on
\* the counter is undone
C10_HookErrorPropagates ==
  /\ [](\A i \in 1..Len(vms) : AbortedInHook(i))
  /\ [](uid = Len(vms))
  /\ [][err = "thrown" =>
          /\ stack' = Pop
          /\ err' = (IF Len(stack) = 1 THEN "toplevel" ELSE "incallback")
          /\ vms' = [vms EXCEPT ![Top.vm].status = "aborted"]
          /\ UNCHANGED <<uid, heap, cls>>]_vars
  /\ [][\A i \in 1..Len(vms) : vms[i].status = "aborted" => vms'[i] = vms[i]]_vars

\* one instance aborted in beforeCreate and one in created, the second
\* error having reached the top level
C10_Witness ==
  /\ err = "toplevel"
  /\ \E i, j \in 1..Len(vms) :
       /\ vms[i].status = "aborted" /\ vms[i].failed = "beforeCreate"
       /\ vms[j].status = "aborted" /\ vms[j].failed = "created"

\* C11 as claimed: a call of Vue without `new` in the development build
\* gives a warning and nothing worse: no error reaches the caller, and an
\* _init invocation begins with the given options
C11_PlainCallProceeds ==
  [][plain'.n = plain.n + 1 =>
       /\ plain'.warned = plain.warned + 1 => err' = "none"
       /\ Len(stack') = Len(stack) + 1
       /\ uid' = uid + 1]_vars

\* a call of Vue without `new` that gave its warning
C11_Witness ==
  /\ plain.n = 1
  /\ plain.warned = 1

\* the options of class c are, key by key, what merging its superOptions
\* with its extendOptions yields
DerivedFromMerge(h, cs, c) ==
  LET options == cs[c].options
      superOptions == cs[c].superOptions
      extendOptions == cs[c].extendOptions
  IN /\ DOMAIN h[options].f =
          ForInKeys(h, superOptions) \cup DOMAIN h[extendOptions].f
     /\ \A key \in DOMAIN h[options].f :
          MergedAs(h, key, Get(h, superOptions, key), Get(h, extendOptions, key),
                   Get(h, options, key), Get(h, options, "name"))

\* the step is made by the program: Vue.extend defines a class, or
\* resolveConstructorOptions is called
ProgramStep == Len(cls') = Len(cls) + 1 \/ last'.n = last.n + 1

\* C12 as claimed: in every state the options of every class that has a
\* parent are the merge of its superOptions with its extendOptions
C12_AlwaysDerived ==
  \A c \in 1..Len(cls) : cls[c].super # 0 => DerivedFromMerge(heap, cls, c)

\* C12 amended: the options that Vue.extend or resolveConstructorOptions
\* stores for a class are the merge of the class's superOptions with its
\* extendOptions, and such a step leaves every other class whose options
\* are that merge in the same condition
C12_DerivedWhenWritten ==
  [][ProgramStep =>
       \A c \in 1..Len(cls') :
         (/\ cls'[c].super # 0
          /\ \/ c > Len(cls)
             \/ cls'[c].options # cls[c].options
             \/ DerivedFromMerge(heap, cls, c))
           => DerivedFromMerge(heap', cls', c)]_vars

\* a class two levels below Vue was re-merged with a key set late on its
\* options, and its parent's options are the merge of their sources
C12_Witness ==
  /\ Remerged
  /\ LastCall.late # EmptyMap
  /\ cls[cls[LastCall.c].super].super # 0
  /\ DerivedFromMerge(heap, cls, cls[LastCall.c].super)
  /\ DerivedFromMerge(heap, cls, LastCall.c)

\* the keys of the options of class c whose value differs by identity from
\* the sealed one: what the next modified-options diff reports
Unsealed(c) ==
  {key \in ForInKeys(heap, cls[c].options) :
     Get(heap, cls[c].options, key) # Get(heap, cls[c].sealedOptions, key)}

\* C13 as claimed: after a resolveConstructorOptions call that recomputed
\* the options of its class, sealedOptions agrees key by key with the new
\* options, so that the next diff reports nothing that was not set later
C13_SealedAfterRemerge ==
  Remerged => Unsealed(LastCall.c) = {}

\* a re-merge of a class on whose options no key had been set late
C13_Witness ==
  /\ Remerged
  /\ LastCall.late = EmptyMap
  /\ cls[LastCall.c].options = LastCall.res

\* the step changes the cached configuration of class c: one of its four
\* fields, or the contents of its extendOptions or sealedOptions object
CacheChanged(c) ==
  \/ cls'[c] # cls[c]
  \/ /\ cls[c].super # 0
     /\ \/ heap'[cls[c].extendOptions] # heap[cls[c].extendOptions]
        \/ heap'[cls[c].sealedOptions] # heap[cls[c].sealedOptions]

\* the step belongs to a construction: it is made by _init, by a callback
\* or a mount in progress, or enters the constructor
ConstructionStep == stack # <<>> \/ stack' # <<>>

\* C14 as claimed: no step of a construction changes the cached
\* configuration of a class, on the fast path or on the merge path
C14_NoChangeInInit ==
  [][ConstructionStep => \A c \in 1..Len(cls) : ~CacheChanged(c)]_vars

\* C14 amended: Vue.extend and mixins apart, the cached configuration of a
\* class changes only in a step that calls resolveConstructorOptions (the
\* merge path of _init does), only for a class that has a parent whose
\* resolved options differ from the class's cached superOptions, and then
\* superOptions becomes the parent's options, options a new object, and
\* sealedOptions stays as it is; the fast path and every other step of
\* _init change nothing
C14_ChangedOnlyByResolver ==
  [][(envOps' = envOps /\ Len(cls') = Len(cls)) =>
       \A c \in 1..Len(cls) :
         CacheChanged(c) =>
           /\ last'.n = last.n + 1
           /\ cls[c].super # 0
           /\ cls'[cls[c].super].options # cls[c].superOptions
           /\ cls'[c].superOptions = cls'[cls[c].super].options
           /\ cls'[c].options > Len(heap)
           /\ cls'[c].sealedOptions = cls[c].sealedOptions
           /\ cls'[c].extendOptions = cls[c].extendOptions
           /\ heap'[cls[c].sealedOptions] = heap[cls[c].sealedOptions]]_vars

\* the merge path of a construction has re-merged the options of its class
\* and changed its extendOptions, and a fast-path construction has begun
C14_Witness ==
  /\ stack # <<>>
  /\ Top.pc = "options"
  /\ isInternal(vms[Top.vm].options)
  /\ last.direct = 0
  /\ Remerged
  /\ DOMAIN heap[cls[LastCall.c].extendOptions].f # LastCall.ext

\* C15: a resolveConstructorOptions call that regenerates the options of a
\* class stores a new object and changes no object that existed before the
\* call, the extendOptions objects apart: the previous options object, and
\* every instance $options whose prototype it is, read as before for every
\* key
C15_RegeneratedNotMutated ==
  [][last'.n = last.n + 1 =>
       \A c \in 1..Len(cls) :
         cls'[c].options # cls[c].options =>
           /\ cls'[c].options > Len(heap)
           /\ \A id \in 1..Len(heap) :
                (\A d \in 1..Len(cls) : id # cls[d].extendOptions) =>
                  heap'[id] = heap[id]
           /\ \A key \in Range(KeyOrder) :
                Get(heap', cls[c].options, key) = Get(heap, cls[c].options, key)
           /\ \A i \in 1..Len(vms) :
                (vms[i].opts # 0 /\ heap[vms[i].opts].proto = cls[c].options) =>
                  \A key \in Range(KeyOrder) \cup DOMAIN heap[vms[i].opts].f :
                    Get(heap', vms[i].opts, key) = Get(heap, vms[i].opts, key)]_vars

\* the options of a class were regenerated while an instance made on the
\* fast path has the previous options object as the prototype of $options
C15_Witness ==
  /\ Remerged
  /\ \E i \in 1..Len(vms) :
       /\ vms[i].ctor = LastCall.c
       /\ vms[i].status = "done"
       /\ isInternal(vms[i].options)
       /\ heap[vms[i].opts].proto # cls[vms[i].ctor].options
       /\ Get(heap, vms[i].opts, "foo") # Get(heap, cls[vms[i].ctor].options, "foo")

\* class c and its ancestors
RECURSIVE Chain(_, _)
Chain(cs, c) == IF c = 0 THEN {} ELSE {c} \cup Chain(cs, cs[c].super)

\* C16: after resolveConstructorOptions(C) the superOptions of C and of
\* each of its ancestors that has a parent are the current options of that
\* class's parent; and a call that finds, at any level above C, a class
\* whose superOptions are not its parent's options regenerates the options
\* of every class from that one down to C
C16_ChainResolved ==
  /\ [](last.calls # <<>> =>
          \A A \in Chain(cls, LastCall.c) :
            cls[A].super # 0 => cls[A].superOptions = cls[cls[A].super].options)
  /\ [][last'.n = last.n + 1 =>
          LET C == last'.calls[Len(last'.calls)].c IN
          \A A \in Chain(cls, C) :
            (cls[A].super # 0 /\ cls[A].superOptions # cls[cls[A].super].options) =>
              \A D \in Chain(cls, C) :
                A \in Chain(cls, D) =>
                  /\ cls'[D].options > Len(heap)
                  /\ cls'[D].superOptions = cls'[cls[D].super].options]_vars

\* the only call made so far, on a class two levels below Vue after a
\* mixin on Vue, regenerated the options of the class and of its parent
C16_Witness ==
  /\ last.n = 1
  /\ Remerged
  /\ cls[VueClass].options # VueOptions
  /\ cls[LastCall.c].super # 0
  /\ cls[cls[LastCall.c].super].super = VueClass
  /\ cls[cls[LastCall.c].super].superOptions = cls[VueClass].options

\* C17 as claimed: while no key is set late on the options of any class,
\* no step changes the extendOptions of a class: every re-merge that an
\* ancestor's change brings about, the first and the later ones, finds an
\* empty diff
C17_ExtendOptionsKept ==
  [][(\A c \in 1..Len(cls) : last.late[c] = EmptyMap) =>
       \A c \in 1..Len(cls) :
         cls[c].super # 0 =>
           /\ cls'[c].extendOptions = cls[c].extendOptions
           /\ heap'[cls[c].extendOptions] = heap[cls[c].extendOptions]]_vars

\* a second re-merge of a class, after a second mixin on Vue, with no key
\* ever set late
C17_Witness ==
  /\ Remerged
  /\ envOps = 2
  /\ last.n >= 2
  /\ \A c \in 1..Len(cls) : last.late[c] = EmptyMap
  /\ cls[LastCall.c].options # cls[LastCall.c].sealedOptions
  /\ "foo" \notin LastCall.ext

\* instance i has ended its _init: it returned, or an error left it
Ended(i) == vms[i].status \in {"done", "aborted"}

\* C18 as claimed: an instance whose _init is running enters its next
\* phase only when the _init of every instance constructed meanwhile has
\* run through
C18_InnerCompletesFirst ==
  [][\A i \in 1..Len(vms) :
       (vms[i].status = "running" /\ vms'[i].log # vms[i].log) =>
         \A j \in (i + 1)..Len(vms) : vms[j].status = "done"]_vars

\* C18 amended: the invocations nest. The ones in progress began in the
\* order of the stack, each inside a callback or the mount of the one
\* below it, with growing _uid; a step changes the innermost one alone;
\* and an instance changes only when every instance constructed after it
\* has ended its _init, by returning or by an error that left it
C18_NestNotInterleave ==
  /\ [](\A n \in 1..(Len(stack) - 1) :
          /\ stack[n].pc \in {"beforeCreate_cb", "created_cb", "mounting"}
          /\ vms[stack[n].vm]._uid < vms[stack[n + 1].vm]._uid
          /\ vms[stack[n].vm].status = "running")
  /\ [][\A n \in 1..(Len(stack) - 1) :
          /\ Len(stack') >= n
          /\ stack'[n] = stack[n]
          /\ vms'[stack[n].vm] = vms[stack[n].vm]]_vars
  /\ [][\A i \in 1..Len(vms) :
          vms'[i] # vms[i] => \A j \in (i + 1)..Len(vms) : Ended(j)]_vars

\* the first instance is past its beforeCreate callbacks, in which a second
\* instance was constructed and aborted and a third was constructed and
\* returned
C18_Witness ==
  /\ Len(stack) = 1
  /\ Top.vm = 1
  /\ Top.pc = "initState"
  /\ Len(vms) = 3
  /\ vms[2].status = "aborted"
  /\ vms[3].status = "done"

====
